---- MODULE Spec2Model ----
(***************************************************************************)
(* A model of the datadog_forwarder component (src/__init__.py): the       *)
(* state_changed_listener that turns state-change events into Values, the  *)
(* ValueBuffer that batches them, and send_values that groups a batch into *)
(* series and submits it.                                                  *)
(*                                                                         *)
(* Python strings are sequences of one-character strings, so that          *)
(* str.split, str.replace and f-string formatting are computed, not        *)
(* assumed.  A Python Optional is a sequence of length 0 or 1.             *)
(***************************************************************************)
EXTENDS Integers, Sequences, FiniteSets, TLC

\* ------------------------------------------------------------------ bounds
\* The wall clock runs from 0 to MaxTime.
MaxTime == 3
\* The event bus delivers at most MaxEvents events.
MaxEvents == 3

\* ----------------------------------------------------------------- strings
S_empty == << >>
S_dot == <<".">>
S_comma == <<",">>
S_space == <<" ">>
S_underscore == <<"_">>
\* homeassistant.const.STATE_UNKNOWN
STATE_UNKNOWN == <<"u","n","k","n","o","w","n">>
S_unknown_device == <<"u","n","k","n","o","w","n","_","d","e","v","i","c","e">>
S_unknown_state == <<"u","n","k","n","o","w","n","_","s","t","a","t","e">>
S_device_class == <<"d","e","v","i","c","e","_","c","l","a","s","s">>
S_state_class == <<"s","t","a","t","e","_","c","l","a","s","s">>
S_unit_of_measurement ==
    <<"u","n","i","t","_","o","f","_","m","e","a","s","u","r","e","m","e","n","t">>
S_domain == <<"d","o","m","a","i","n">>
S_entity_id == <<"e","n","t","i","t","y","_","i","d">>
S_colon == <<":">>
S_on == <<"o","n">>
S_off == <<"o","f","f">>
S_True == <<"T","r","u","e">>
S_False == <<"F","a","l","s","e">>
S_None == <<"N","o","n","e">>

Digits == <<"0","1","2","3","4","5","6","7","8","9">>

IsDigit(c) == \E i \in 1..10 : Digits[i] = c

DigitVal(c) == (CHOOSE i \in 1..10 : Digits[i] = c) - 1

\* str(n) for an integer n >= 0.
RECURSIVE IntToStr(_)
IntToStr(n) ==
    IF n < 10 THEN <<Digits[n + 1]>>
    ELSE IntToStr(n \div 10) \o <<Digits[(n % 10) + 1]>>

\* The value of a non-empty string of decimal digits.
RECURSIVE DigitsToInt(_)
DigitsToInt(s) ==
    IF Len(s) = 1 THEN DigitVal(s[1])
    ELSE 10 * DigitsToInt(SubSeq(s, 1, Len(s) - 1)) + DigitVal(s[Len(s)])

\* str.replace(old, new) for one-character old and new.
StrReplace(s, old, new) ==
    [i \in 1..Len(s) |-> IF <<s[i]>> = old THEN new[1] ELSE s[i]]

\* str.split(sep) for a one-character sep: "" splits to [""], "a," to ["a", ""].
RECURSIVE StrSplit(_, _)
StrSplit(s, sep) ==
    IF \A i \in 1..Len(s) : <<s[i]>> # sep THEN <<s>>
    ELSE LET k == CHOOSE i \in 1..Len(s) :
                     /\ <<s[i]>> = sep
                     /\ \A j \in 1..(i - 1) : <<s[j]>> # sep
         IN  <<SubSeq(s, 1, k - 1)>> \o StrSplit(SubSeq(s, k + 1, Len(s)), sep)

\* ------------------------------------------------- attribute values, events
\* A Python value held in state.attributes, tagged with its type.  `num` is the
\* number of an int or a float, `flag` the truth value of a bool, `str` the
\* text of a str.
VInt(n) == [type |-> "int", num |-> n, flag |-> FALSE, str |-> S_empty]
VFloat(n) == [type |-> "float", num |-> n, flag |-> FALSE, str |-> S_empty]
VBool(f) == [type |-> "bool", num |-> 0, flag |-> f, str |-> S_empty]
VStr(s) == [type |-> "str", num |-> 0, flag |-> FALSE, str |-> s]
VNone == [type |-> "NoneType", num |-> 0, flag |-> FALSE, str |-> S_empty]
VList == [type |-> "list", num |-> 0, flag |-> FALSE, str |-> S_empty]

\* IsNumber that forgets that a bool is an int.
IsNumber_NoBool(v) == v.type \in {"float", "int"}

\* isinstance(value, (float, int)): bool is a subclass of int.
IsNumber(v) == v.type \in {"float", "int", "bool"}

\* int(value) if isinstance(value, bool) else value
CoerceBool(v) == IF v.type = "bool" THEN (IF v.flag THEN 1 ELSE 0) ELSE v.num

\* What an f-string writes for a value.
Format(v) ==
    CASE v.type = "str" -> v.str
      [] v.type = "int" -> IntToStr(v.num)
      [] v.type = "float" -> IntToStr(v.num) \o <<".", "0">>
      [] v.type = "bool" -> (IF v.flag THEN S_True ELSE S_False)
      [] v.type = "NoneType" -> S_None
      [] OTHER -> <<"[", "]">>

\* attrs.get(key, default), attrs a sequence of [key, value] in dict order.
AttrGet(attrs, key, default) ==
    IF \E i \in 1..Len(attrs) : attrs[i].key = key
    THEN attrs[CHOOSE i \in 1..Len(attrs) : attrs[i].key = key].value
    ELSE default

\* homeassistant.helpers.state.state_as_number: 1 or 0 for the on/off states,
\* else float(state.state), which raises ValueError on a non-number.
StateAsNumber(s) ==
    CASE s = S_on -> [ok |-> TRUE, num |-> 1]
      [] s \in {S_off, STATE_UNKNOWN} -> [ok |-> TRUE, num |-> 0]
      [] Len(s) > 0 /\ (\A i \in 1..Len(s) : IsDigit(s[i])) ->
             [ok |-> TRUE, num |-> DigitsToInt(s)]
      [] OTHER -> [ok |-> FALSE, num |-> 0]

\* ------------------------------------------------------------ the inputs
S_sensor == <<"s","e","n","s","o","r">>
S_e1 == <<"s",".","t","1">>
S_e2 == <<"s",".","t","2">>
S_temperature == <<"t","e","m","p">>
S_C == <<"C">>
S_battery_level == <<"b","a","t","t","e","r","y"," ","l","v","l">>
S_is_on == <<"i","s"," ","o","n">>
S_note == <<"n","o","t","e">>
S_abc == <<"a","b","c">>
S_ha == <<"h","a">>

Attr(k, v) == [key |-> k, value |-> v]

State(st, eid, attrs, t) ==
    [state |-> st, domain |-> S_sensor, entity_id |-> eid,
     attributes |-> attrs, last_updated_timestamp |-> t]

\* event.data: new_state is missing (<< >>) or present (<<state>>).
Event(opt) == [new_state |-> opt]

Events ==
    { Event(<< >>),
      Event(<<State(STATE_UNKNOWN, S_e1, <<Attr(S_battery_level, VInt(55))>>, 100)>>),
      Event(<<State(<<"2","1">>, S_e1,
                    <<Attr(S_device_class, VStr(S_temperature)),
                      Attr(S_state_class, VStr(S_note)),
                      Attr(S_unit_of_measurement, VStr(S_C)),
                      Attr(S_battery_level, VInt(55))>>, 100)>>),
      Event(<<State(S_abc, S_e1,
                    <<Attr(S_is_on, VBool(TRUE)), Attr(S_None, VNone),
                      Attr(S_off, VBool(FALSE)), Attr(S_note, VList)>>, 50)>>),
      Event(<<State(<<"7">>, S_e1, << >>, 100)>>),
      Event(<<State(<<"5">>, S_e1, << >>, 50)>>),
      Event(<<State(S_on, S_e2, <<Attr(S_note, VFloat(2))>>, 100)>>) }

\* conf["tags"]: the default "", and a list of two entity_id tags.
ConfTags ==
    { S_empty,
      S_entity_id \o S_colon \o S_e1 \o S_comma \o S_entity_id \o S_colon \o S_e2 }

\* conf["flush_period_sec"]
Periods == {0, 2}

\* conf = config[DOMAIN]: the configurations of the integration. The list of
\* two tags is paired with the longer period only.
Confs ==
    { conf \in [tags : ConfTags, flush_period_sec : Periods] :
          conf.tags = S_empty \/ conf.flush_period_sec = 2 }

\* ------------------------------------------------------------ send_values
\* MetricId = namedtuple("MetricId", ["name", "tags", "unit"]); tags is a tuple.
MetricId(name, tags, unit) == [name |-> name, tags |-> tags, unit |-> unit]

\* Value = namedtuple("Value", ["id", "timestamp", "value"]).  `uid` is not a
\* field of the program's Value: it numbers the Values in the order they were
\* accepted, so that two equal Values remain two Samples.
Value(id, timestamp, value, uid) ==
    [id |-> id, timestamp |-> timestamp, value |-> value, uid |-> uid]

MetricPoint(v) == [timestamp |-> v.timestamp, value |-> v.value, uid |-> v.uid]

\* IdEq comparing the names alone.
IdEq_NameOnly(x, y) == x.name = y.name

\* Equality (and hash) of two MetricId keys of the by_name dict: namedtuple
\* equality, field by field, the tags compared as tuples.
IdEq(x, y) == x.name = y.name /\ x.tags = y.tags /\ x.unit = y.unit

\* by_name[value.id].append(MetricPoint(...)): by_name is a dict in insertion
\* order, here a sequence of [id, points].
ByNameAppend(by_name, v) ==
    IF \E i \in 1..Len(by_name) : IdEq(by_name[i].id, v.id)
    THEN LET k == CHOOSE i \in 1..Len(by_name) : IdEq(by_name[i].id, v.id)
         IN  [by_name EXCEPT ![k].points = Append(@, MetricPoint(v))]
    ELSE Append(by_name, [id |-> v.id, points |-> <<MetricPoint(v)>>])

RECURSIVE ByName(_)
ByName(values) ==
    IF values = << >> THEN << >>
    ELSE ByNameAppend(ByName(SubSeq(values, 1, Len(values) - 1)), values[Len(values)])

\* SortInsert putting p before the points of its own timestamp.
SortInsert_Unstable(sorted, p) ==
    LET n == Cardinality({i \in 1..Len(sorted) : sorted[i].timestamp < p.timestamp})
    IN  SubSeq(sorted, 1, n) \o <<p>> \o SubSeq(sorted, n + 1, Len(sorted))

\* One step of a stable sort: p goes after every point whose timestamp is not
\* greater than its own.
SortInsert(sorted, p) ==
    LET n == Cardinality({i \in 1..Len(sorted) : sorted[i].timestamp <= p.timestamp})
    IN  SubSeq(sorted, 1, n) \o <<p>> \o SubSeq(sorted, n + 1, Len(sorted))

\* points.sort(key=lambda p: p.timestamp): list.sort is stable.
RECURSIVE SortByTimestamp(_)
SortByTimestamp(points) ==
    IF points = << >> THEN << >>
    ELSE SortInsert(SortByTimestamp(SubSeq(points, 1, Len(points) - 1)),
                    points[Len(points)])

MetricSeries(id, points) ==
    [metric |-> id.name, points |-> points, tags |-> id.tags, unit |-> id.unit,
     type |-> "GAUGE"]

\* The series of MetricPayload(series) that send_values submits for `values`.
SendValuesSeries(values) ==
    LET by_name == ByName(values)
    IN  [i \in 1..Len(by_name) |->
            MetricSeries(by_name[i].id, SortByTimestamp(by_name[i].points))]

\* ------------------------------------------------- state_changed_listener
DeviceClass(attrs) == Format(AttrGet(attrs, S_device_class, VStr(S_unknown_device)))

StateClass(attrs) == Format(AttrGet(attrs, S_state_class, VStr(S_unknown_state)))

\* metric = f"{prefix}.{state.domain}.{device_class}.{state_class}"
MetricName(prefix, state) ==
    prefix \o S_dot \o state.domain \o S_dot \o DeviceClass(state.attributes)
           \o S_dot \o StateClass(state.attributes)

\* tags = [domain:..., entity_id:..., device_class:..., state_class:...] + default_tags
Tags(state, default_tags) ==
    << S_domain \o S_colon \o state.domain,
       S_entity_id \o S_colon \o state.entity_id,
       S_device_class \o S_colon \o DeviceClass(state.attributes),
       S_state_class \o S_colon \o StateClass(state.attributes) >> \o default_tags

\* unit = attrs.get("unit_of_measurement", "")
Unit(attrs) == AttrGet(attrs, S_unit_of_measurement, VStr(S_empty)).str

\* AttributeName keeping the spaces of the key.
AttributeName_KeepSpaces(metric, key) == metric \o S_dot \o key

\* attribute = f"{metric}.{key.replace(' ', '_')}"
AttributeName(metric, key) == metric \o S_dot \o StrReplace(key, S_space, S_underscore)

\* m_id = MetricId(attribute, tuple(tags), ""); Value(m_id, ts, value)
AttributeValue(prefix, state, default_tags, i, uid) ==
    LET a == state.attributes[i]
    IN  Value(MetricId(AttributeName(MetricName(prefix, state), a.key),
                       Tags(state, default_tags), S_empty),
              state.last_updated_timestamp, CoerceBool(a.value), uid)

\* m_id = MetricId(metric, tuple(tags), unit); Value(m_id, ts, value)
PrimaryValue(prefix, state, default_tags, uid) ==
    Value(MetricId(MetricName(prefix, state), Tags(state, default_tags),
                   Unit(state.attributes)),
          state.last_updated_timestamp, StateAsNumber(state.state).num, uid)

\* Ignored without the test of the unknown state.
Ignored_MissingOnly(event) == event.new_state = << >>

\* if state is None or state.state == STATE_UNKNOWN: return
Ignored(event) ==
    \/ event.new_state = << >>
    \/ event.new_state[1].state = STATE_UNKNOWN

\* -------------------------------------------------------------- the state
VARIABLES
    clock,              \* time.time(), in whole seconds
    default_tags,       \* setup: conf["tags"].split(",")
    flush_period_sec,   \* ValueBuffer._flush_period_sec
    b,                  \* ValueBuffer._b
    last_send,          \* ValueBuffer._last_send
    cur,                \* the state the running listener call handles, or << >>
    idx,                \* its place in `for key, value in attrs.items()`
    nev,                \* events delivered so far
    times,              \* times[uid]: sink calls that carried Value uid
    last_call,          \* the time of the last sink call, -1 before the first
    emitted,            \* the Values the last listener call handed to the buffer
    did                 \* what the last step of the listener did

vars == <<clock, default_tags, flush_period_sec, b, last_send, cur, idx, nev,
          times, last_call, emitted, did>>

\* prefix = conf["prefix"]
prefix == S_ha

\* What the sink does with a submission: accept it, return errors, or raise.
Outcomes == {"ok", "errors", "raise"}

\* A step of the listener: `op` names it; `ev` numbers the event; `uid` is the
\* Value handed to buffer_or_send (0: none); `sent` tells whether send_values
\* was called, `outcome` what the sink did, `batch` the values it was given and
\* `series` the series it submitted.
Step(op, ev, uid, sent, outcome, batch, series) ==
    [op |-> op, ev |-> ev, uid |-> uid, sent |-> sent, outcome |-> outcome,
     batch |-> batch, series |-> series]

NoCall(op, ev, uid) == Step(op, ev, uid, FALSE, "none", << >>, << >>)

\* ------------------------------------------------------------ ValueBuffer
\* def ts() -> int: int(time.time())
ts == clock

\* FlushDue with >= for >.
FlushDue_AtLeast(now, last, period) == now - last >= period

\* if now - self._last_send > self._flush_period_sec
FlushDue(now, last, period) == now - last > period

\* BatchAfterSend keeping the batch unless the sink accepted all of it.
BatchAfterSend_KeepOnErrors(batch, outcome) == IF outcome = "ok" THEN << >> ELSE batch

\* self._b after the send_values call: the exception of a raising call
\* leaves buffer_or_send before `self._b = []`.
BatchAfterSend(batch, outcome) == IF outcome = "raise" THEN batch ELSE << >>

\* self._last_send after the send_values call: a raising call leaves
\* buffer_or_send before `self._last_send = now`.
LastSendAfterSend(now, last, outcome) == IF outcome = "raise" THEN last ELSE now

\* times after one sink call carrying `batch`.
Carried(t, batch) ==
    [u \in 1..Len(t) |->
        IF \E i \in 1..Len(batch) : batch[i].uid = u THEN t[u] + 1 ELSE t[u]]

\* buffer_or_send putting the Value at the head of the batch.
BufferOrSend_Prepend(op, val, outcome) ==
    LET batch == <<val>> \o b
        now == ts
    IN  /\ emitted' = Append(emitted, val)
        /\ IF FlushDue(now, last_send, flush_period_sec)
           THEN /\ b' = BatchAfterSend(batch, outcome)
                /\ last_send' = LastSendAfterSend(now, last_send, outcome)
                /\ times' = Carried(Append(times, 0), batch)
                /\ last_call' = now
                /\ did' = Step(op, nev, val.uid, TRUE, outcome, batch,
                               SendValuesSeries(batch))
           ELSE /\ b' = batch
                /\ last_send' = last_send
                /\ times' = Append(times, 0)
                /\ last_call' = last_call
                /\ did' = NoCall(op, nev, val.uid)

\* buffer_or_send evaluating the flush condition, and sending, before the
\* Value is appended.
BufferOrSend_SendBeforeAppend(op, val, outcome) ==
    LET batch == b
        now == ts
    IN  /\ emitted' = Append(emitted, val)
        /\ IF FlushDue(now, last_send, flush_period_sec)
           THEN /\ b' = Append(BatchAfterSend(batch, outcome), val)
                /\ last_send' = LastSendAfterSend(now, last_send, outcome)
                /\ times' = Carried(Append(times, 0), batch)
                /\ last_call' = now
                /\ did' = Step(op, nev, val.uid, TRUE, outcome, batch,
                               SendValuesSeries(batch))
           ELSE /\ b' = Append(batch, val)
                /\ last_send' = last_send
                /\ times' = Append(times, 0)
                /\ last_call' = last_call
                /\ did' = NoCall(op, nev, val.uid)

\* ValueBuffer.buffer_or_send(val), the sink answering `outcome` if called.
BufferOrSend(op, val, outcome) ==
    LET batch == Append(b, val)
        now == ts
    IN  /\ emitted' = Append(emitted, val)
        /\ IF FlushDue(now, last_send, flush_period_sec)
           THEN /\ b' = BatchAfterSend(batch, outcome)
                /\ last_send' = LastSendAfterSend(now, last_send, outcome)
                /\ times' = Carried(Append(times, 0), batch)
                /\ last_call' = now
                /\ did' = Step(op, nev, val.uid, TRUE, outcome, batch,
                               SendValuesSeries(batch))
           ELSE /\ b' = batch
                /\ last_send' = last_send
                /\ times' = Append(times, 0)
                /\ last_call' = last_call
                /\ did' = NoCall(op, nev, val.uid)

\* ---------------------------------------------------------------- actions
\* After setup(): the buffer is empty and _last_send is the time of construction.
Init ==
    /\ clock = 0
    /\ \E conf \in Confs :
           /\ default_tags = StrSplit(conf.tags, S_comma)
           /\ flush_period_sec = conf.flush_period_sec
    /\ b = << >>
    /\ last_send = clock
    /\ cur = << >>
    /\ idx = 0
    /\ nev = 0
    /\ times = << >>
    /\ last_call = -1
    /\ emitted = << >>
    /\ did = NoCall("setup", 0, 0)

\* Tick with a timer that flushes the batch once the period has run out.
Tick_TimerFlush ==
    /\ clock < MaxTime
    /\ clock' = clock + 1
    /\ IF b # << >> /\ FlushDue(clock + 1, last_send, flush_period_sec)
       THEN /\ b' = << >>
            /\ last_send' = clock + 1
            /\ times' = Carried(times, b)
            /\ last_call' = clock + 1
       ELSE UNCHANGED <<b, last_send, times, last_call>>
    /\ UNCHANGED <<default_tags, flush_period_sec, cur, idx, nev, emitted, did>>

\* A second of wall-clock time passes.
Tick ==
    /\ clock < MaxTime
    /\ clock' = clock + 1
    /\ UNCHANGED <<default_tags, flush_period_sec, b, last_send, cur, idx, nev,
                   times, last_call, emitted, did>>

\* The bus calls state_changed_listener(event); it returns at once on a
\* missing or unknown state, else it is at the head of its attribute loop.
Listener(event) ==
    /\ cur = << >>
    /\ nev < MaxEvents
    /\ nev' = nev + 1
    /\ emitted' = << >>
    /\ IF Ignored(event)
       THEN /\ did' = NoCall("ignored", nev + 1, 0)
            /\ UNCHANGED <<cur, idx>>
       ELSE /\ did' = NoCall("entered", nev + 1, 0)
            /\ cur' = event.new_state
            /\ idx' = 1
    /\ UNCHANGED <<clock, default_tags, flush_period_sec, b, last_send, times,
                   last_call>>

\* One turn of `for key, value in attrs.items()`.
AttributeStep(outcome) ==
    /\ cur # << >>
    /\ idx <= Len(cur[1].attributes)
    /\ IF IsNumber(cur[1].attributes[idx].value)
       THEN /\ BufferOrSend("attribute",
                   AttributeValue(prefix, cur[1], default_tags, idx, Len(times) + 1),
                   outcome)
            /\ IF did'.outcome = "raise"
               THEN cur' = << >> /\ idx' = 0
               ELSE cur' = cur /\ idx' = idx + 1
       ELSE /\ idx' = idx + 1
            /\ did' = NoCall("not_a_number", nev, 0)
            /\ UNCHANGED <<b, last_send, times, last_call, emitted, cur>>
    /\ UNCHANGED <<clock, default_tags, flush_period_sec, nev>>

\* PrimaryStep whose `except ValueError` does not return.
PrimaryStep_NoReturn(outcome) ==
    /\ cur # << >>
    /\ idx = Len(cur[1].attributes) + 1
    /\ BufferOrSend("primary",
           PrimaryValue(prefix, cur[1], default_tags, Len(times) + 1), outcome)
    /\ cur' = << >>
    /\ idx' = 0
    /\ UNCHANGED <<clock, default_tags, flush_period_sec, nev>>

\* The end of the listener: state_as_number, then the primary Value.
PrimaryStep(outcome) ==
    /\ cur # << >>
    /\ idx = Len(cur[1].attributes) + 1
    /\ IF StateAsNumber(cur[1].state).ok
       THEN BufferOrSend("primary",
                PrimaryValue(prefix, cur[1], default_tags, Len(times) + 1), outcome)
       ELSE /\ did' = NoCall("value_error", nev, 0)
            /\ UNCHANGED <<b, last_send, times, last_call, emitted>>
    /\ cur' = << >>
    /\ idx' = 0
    /\ UNCHANGED <<clock, default_tags, flush_period_sec, nev>>

Next ==
    \/ Tick
    \/ \E event \in Events : Listener(event)
    \/ \E outcome \in Outcomes : AttributeStep(outcome)
    \/ \E outcome \in Outcomes : PrimaryStep(outcome)

Spec == Init /\ [][Next]_vars

\* ----------------------------------------------------------------- claims
\* The uids of a sequence of Values or of points.
Uids(seq) == {seq[i].uid : i \in 1..Len(seq)}

\* The uids of the points of every series of a payload.
SeriesUids(series) == UNION {Uids(series[j].points) : j \in 1..Len(series)}

\* A step in which buffer_or_send was called: one more Value has a uid.
AcceptCall == Len(times') = Len(times) + 1

\* C1: an accept call made while the time since the last flush does not exceed
\* the flush period makes no submission and the Value joins the batch; an accept
\* call made after the period has elapsed makes exactly one submission, which
\* carries the whole batch with the new Value, and the buffer is empty after it.
C1_RunThenFlush ==
    [][AcceptCall =>
        IF clock - last_send <= flush_period_sec
        THEN /\ ~did'.sent
             /\ times' = Append(times, 0)
             /\ Len(b') = Len(b) + 1
             /\ SubSeq(b', 1, Len(b)) = b
        ELSE /\ did'.sent
             /\ SeriesUids(did'.series) = Uids(b) \cup {Len(times')}
             /\ \A u \in 1..Len(times) :
                    times'[u] = times[u] + (IF u \in Uids(b) THEN 1 ELSE 0)
             /\ times'[Len(times')] = 1
             /\ b' = << >>]_vars

\* C2: after every accept call that attempted a submission the batch is empty,
\* whatever the sink did (accepted, returned errors, raised).
C2_EmptyAfterAttempt == did.sent => b = << >>

\* C3: no Value is ever carried by more than one submission call.
C3_AtMostOnce == \A u \in 1..Len(times) : times[u] <= 1

\* The identity a submitted series carries.
SeriesId(serie) == MetricId(serie.metric, serie.tags, serie.unit)

\* The series of a payload that hold the point made from Value v.
SeriesOf(series, v) ==
    {j \in 1..Len(series) :
        \E k \in 1..Len(series[j].points) : series[j].points[k] = MetricPoint(v)}

\* The place of the Value numbered uid in a batch.
Pos(batch, uid) == CHOOSE i \in 1..Len(batch) : batch[i].uid = uid

C5_SortedStable ==
    did.sent =>
        \A j \in 1..Len(did.series) :
            LET pts == did.series[j].points
            IN  \A k, l \in 1..Len(pts) :
                    k < l =>
                        /\ pts[k].timestamp <= pts[l].timestamp
                        /\ pts[k].timestamp = pts[l].timestamp =>
                               Pos(did.batch, pts[k].uid) < Pos(did.batch, pts[l].uid)

\* A series whose points were reordered by the sort and which holds a tie: the
\* later Value with the earlier timestamp comes first, the tied ones in order.
C5_Witness ==
    /\ did.sent
    /\ \E j \in 1..Len(did.series) :
           LET pts == did.series[j].points
           IN  /\ \E k, l \in 1..Len(pts) :
                      /\ k < l
                      /\ pts[k].timestamp < pts[l].timestamp
                      /\ Pos(did.batch, pts[k].uid) > Pos(did.batch, pts[l].uid)
               /\ \E k, l \in 1..Len(pts) :
                      /\ k < l
                      /\ pts[k].timestamp = pts[l].timestamp

\* The tags of an identity as an unordered set.
TagSet(id) == {id.tags[i] : i \in 1..Len(id.tags)}

\* Identity equality as an unordered-tag rule.
SameIdentity(x, y) == x.name = y.name /\ x.unit = y.unit /\ TagSet(x) = TagSet(y)

\* C6: two Values of a flush are points of the same series exactly when their
\* identities have the same name, the same unit and the same set of tags,
\* whatever the order of the tags.
C6_TagOrderIgnored ==
    did.sent =>
        \A i, j \in 1..Len(did.batch) :
            SameIdentity(did.batch[i].id, did.batch[j].id)
                <=> SeriesOf(did.series, did.batch[i]) = SeriesOf(did.series, did.batch[j])

\* C7: an accept call whose submission comes back with errors ends normally
\* (an attribute's call goes on to the next attribute), leaves the batch empty
\* and _last_send at the time of the call; and a Value that has left the batch
\* is never in the batch again nor carried by a later submission.
C7_ErrorsNotFatal ==
    [][/\ (AcceptCall /\ did'.outcome = "errors") =>
              /\ b' = << >>
              /\ last_send' = clock
              /\ last_send' >= last_send
              /\ did'.op = "attribute" => (cur' = cur /\ idx' = idx + 1)
       /\ \A u \in 1..Len(times) :
              u \notin Uids(b) => (u \notin Uids(b') /\ times'[u] = times[u])]_vars

\* A submission of several Values came back with errors inside the attribute
\* loop, which goes on.
C7_Witness ==
    /\ did.sent
    /\ did.outcome = "errors"
    /\ did.op = "attribute"
    /\ Len(did.batch) >= 2
    /\ cur # << >>

\* An event with no new state, or with the unknown state.
MissingOrUnknown(event) ==
    event.new_state = << >> \/ event.new_state[1].state = STATE_UNKNOWN

\* C8: the listener called with an event whose new state is missing or unknown
\* hands no Value to the buffer and returns: the batch, _last_send and the
\* submissions made are as before, also when a flush is due.
C8_IgnoredEventNoEffect ==
    [][\A event \in Events :
          (MissingOrUnknown(event) /\ Listener(event)) =>
              /\ UNCHANGED <<b, last_send, times>>
              /\ emitted' = << >>
              /\ cur' = << >>]_vars

\* An event was ignored while the batch held Values and a flush was due.
C8_Witness ==
    /\ did.op = "ignored"
    /\ b # << >>
    /\ clock - last_send > flush_period_sec

\* The state's text is no number.
CoercionFails(state) == ~StateAsNumber(state.state).ok

\* The same state with a text that is a number.
WithNumber(state) == [state EXCEPT !.state = <<"1">>]

\* C9: while the listener handles a state whose coercion fails, each attribute
\* Value is handed to the buffer as for the same state with a number; and its
\* last step hands over nothing, changes neither the batch nor _last_send nor
\* the submissions made, and returns without an exception.
C9_CoercionFailureLocal ==
    [][(cur # << >> /\ CoercionFails(cur[1])) =>
          /\ AcceptCall =>
                 /\ idx <= Len(cur[1].attributes)
                 /\ emitted' = Append(emitted,
                        AttributeValue(prefix, WithNumber(cur[1]), default_tags, idx,
                                       Len(times) + 1))
                 /\ (did'.sent /\ did'.outcome # "raise") \/ b' = Append(b,
                        AttributeValue(prefix, WithNumber(cur[1]), default_tags, idx,
                                       Len(times) + 1))
          /\ (idx = Len(cur[1].attributes) + 1 /\ cur' = << >>) =>
                 /\ UNCHANGED <<b, last_send, times, emitted>>
                 /\ did'.op = "value_error"
                 /\ did'.outcome = "none"]_vars

\* The listener ended on a failed coercion after an attribute Value went out.
C9_Witness ==
    /\ did.op = "value_error"
    /\ emitted # << >>
    /\ cur = << >>

\* A Value without its uid.
Sample(v) == [id |-> v.id, timestamp |-> v.timestamp, value |-> v.value]

Samples(values) == [i \in 1..Len(values) |-> Sample(values[i])]

\* The text of attribute `key`, or `default` when the state has none.
TextOr(state, key, default) ==
    LET found == {i \in 1..Len(state.attributes) : state.attributes[i].key = key}
    IN  IF found = {} THEN default
        ELSE state.attributes[CHOOSE i \in found : TRUE].value.str

\* <prefix>.<domain>.<device_class>.<state_class>
BaseName(state) ==
    prefix \o <<".">> \o state.domain
           \o <<".">> \o TextOr(state, S_device_class, S_unknown_device)
           \o <<".">> \o TextOr(state, S_state_class, S_unknown_state)

\* The tags every Sample of the state has.
BaseTags(state) ==
    << S_domain \o <<":">> \o state.domain,
       S_entity_id \o <<":">> \o state.entity_id,
       S_device_class \o <<":">> \o TextOr(state, S_device_class, S_unknown_device),
       S_state_class \o <<":">> \o TextOr(state, S_state_class, S_unknown_state) >>
    \o default_tags

\* The key with each space replaced by an underscore.
Underscored(key) == [i \in 1..Len(key) |-> IF key[i] = " " THEN "_" ELSE key[i]]

\* One Sample per numeric attribute, in attribute order, then the primary one.
RECURSIVE AttributeSamples(_, _)
AttributeSamples(state, n) ==
    IF n = 0 THEN << >>
    ELSE LET a == state.attributes[n]
         IN  AttributeSamples(state, n - 1) \o
                 (IF a.value.type \in {"int", "float", "bool"}
                  THEN << [id |-> [name |-> BaseName(state) \o <<".">> \o Underscored(a.key),
                                   tags |-> BaseTags(state), unit |-> << >>],
                           timestamp |-> state.last_updated_timestamp,
                           value |-> IF a.value.type = "bool"
                                     THEN (IF a.value.flag THEN 1 ELSE 0)
                                     ELSE a.value.num] >>
                  ELSE << >>)

ExpectedSamples(state) ==
    AttributeSamples(state, Len(state.attributes)) \o
        << [id |-> [name |-> BaseName(state), tags |-> BaseTags(state),
                    unit |-> TextOr(state, S_unit_of_measurement, << >>)],
            timestamp |-> state.last_updated_timestamp,
            value |-> StateAsNumber(state.state).num] >>

IsPrefix(s, t) == Len(s) <= Len(t) /\ SubSeq(t, 1, Len(s)) = s

\* C10 as claimed: when the listener is done with a state that coerces to a
\* number, the Samples it produced are one per numeric attribute and the
\* primary one, with the names, units, tags and timestamp of the claim.
C10_SamplesOfEvent ==
    [][(cur # << >> /\ cur' = << >> /\ StateAsNumber(cur[1].state).ok) =>
          Samples(emitted') = ExpectedSamples(cur[1])]_vars

\* C10 as amended: the Samples produced for such a state are at every moment
\* the first ones of that list, and all of it when the listener is done, unless
\* it was ended by a submission that raised inside the attribute loop.
C10_SamplesOfEventUnlessRaised ==
    [][(cur # << >> /\ StateAsNumber(cur[1].state).ok) =>
          /\ IsPrefix(Samples(emitted'), ExpectedSamples(cur[1]))
          /\ (cur' = << >> /\ ~(did'.op = "attribute" /\ did'.outcome = "raise")) =>
                 Samples(emitted') = ExpectedSamples(cur[1])]_vars

\* The listener is done with a state that has a device class, a unit and a
\* numeric attribute with a space in its name.
C10_Witness ==
    /\ did.op = "primary"
    /\ cur = << >>
    /\ Len(emitted) = 2
    /\ emitted[1].id.unit = << >>
    /\ emitted[2].id.unit = S_C
    /\ \E i \in 1..Len(emitted[1].id.name) : emitted[1].id.name[i] = "_"

\* The listener takes a turn of its attribute loop in this step.
AttributeTurn ==
    /\ cur # << >>
    /\ idx <= Len(cur[1].attributes)
    /\ (idx' # idx \/ cur' # cur)

\* C11: in its turn of the loop a bool attribute gives a Value that is 1 for
\* True and 0 for False, an int or float attribute a Value that is its number,
\* and an attribute of any other type gives no Value.
C11_AttributeTypes ==
    [][AttributeTurn =>
          LET a == cur[1].attributes[idx].value
          IN  CASE a.type = "bool" ->
                       /\ AcceptCall
                       /\ emitted'[Len(emitted')].value \in {0, 1}
                       /\ (emitted'[Len(emitted')].value = 1) <=> a.flag
                [] a.type \in {"int", "float"} ->
                       /\ AcceptCall
                       /\ emitted'[Len(emitted')].value = a.num
                [] OTHER ->
                       /\ ~AcceptCall
                       /\ UNCHANGED <<b, last_send, times, emitted>>]_vars

\* The loop has passed a True, a None, a False and a list: two Values, 1 and 0.
C11_Witness ==
    /\ did.op = "not_a_number"
    /\ cur # << >>
    /\ idx = Len(cur[1].attributes) + 1
    /\ Len(emitted) = 2
    /\ emitted[1].value = 1
    /\ emitted[2].value = 0

\* C12: an accept call makes a submission exactly when the time of the call
\* minus _last_send is greater than the flush period, so none when they are
\* equal; and _last_send starts as the time of construction (here 0), so that
\* no submission has been made while the clock is within the first period.
C12_StrictThreshold ==
    [][/\ AcceptCall => (did'.sent <=> clock - last_send > flush_period_sec)
       /\ AcceptCall => (times'[Len(times')] = 1 <=> clock - last_send > flush_period_sec)
       /\ clock' <= flush_period_sec =>
              (last_send' = 0 /\ \A u \in 1..Len(times') : times'[u] = 0)]_vars

\* An accept call at the very second of construction with a period of 0: the
\* difference equals the period and nothing was submitted.
C12_Witness ==
    /\ did.uid # 0
    /\ ~did.sent
    /\ clock = 0
    /\ last_send = 0
    /\ flush_period_sec = 0
    /\ b # << >>

\* C13: a submission call comes more than the flush period after the
\* submission call before it, whatever that one's outcome was.
C13_CallsApart ==
    [][(AcceptCall /\ did'.sent /\ last_call >= 0) =>
          clock - last_call > flush_period_sec]_vars

\* C14: a submission is made only by an accept call: a step that is no accept
\* call, and so every passing second, leaves the batch, _last_send and the
\* submissions made as they are; and an accept call that finds the period
\* elapsed, however long ago, submits the batch.
C14_FlushOnlyOnAccept ==
    [][/\ ~AcceptCall => UNCHANGED <<b, last_send, times, last_call>>
       /\ clock' # clock => ~AcceptCall
       /\ (AcceptCall /\ clock - last_send > flush_period_sec) =>
              /\ did'.sent
              /\ Uids(b) \subseteq SeriesUids(did'.series)]_vars

\* The period ran out two seconds ago or more and the batch, never submitted,
\* is still there.
C14_Witness ==
    /\ b # << >>
    /\ clock - last_send >= flush_period_sec + 2
    /\ last_call = -1

\* C15: every accepted Value is consumed exactly once by a flush: a Value still
\* in the batch has been carried by no submission, and a Value that has left
\* the batch has been carried by exactly one.
C15_ConsumedExactlyOnce ==
    \A u \in 1..Len(times) :
        IF u \in Uids(b) THEN times[u] = 0 ELSE times[u] = 1

\* C16: the listener hands its Values to the buffer in emission order, the
\* attribute Values in the order of the attribute map and the primary Value
\* last, after which it is done; each is appended at the end of the batch, so
\* the batch holds its Values in the order of their arrival.
C16_EmissionOrder ==
    [][/\ cur # << >> =>
              Samples(emitted) = AttributeSamples(cur[1], idx - 1)
       /\ AcceptCall =>
              /\ emitted'[Len(emitted')].uid = Len(times')
              /\ (IF did'.sent THEN did'.batch ELSE b')
                     = Append(b, emitted'[Len(emitted')])
              /\ idx = Len(cur[1].attributes) + 1 =>
                     /\ cur' = << >>
                     /\ Samples(emitted') = ExpectedSamples(cur[1])
       /\ \A i, j \in 1..Len(b') : i < j => b'[i].uid < b'[j].uid]_vars

\* The batch holds the Values of two events, the last an attribute Value and
\* a primary Value.
C16_Witness ==
    /\ did.op = "primary"
    /\ Len(emitted) = 2
    /\ Len(b) >= 3
    /\ \A i \in 1..Len(b) : b[i].uid = b[1].uid + i - 1

\* C18: when the configured tags string is empty, the tags of every Value the
\* listener produces are exactly the four base tags domain, entity_id,
\* device_class and state_class, and none of them is the empty string.
C18_EmptyConfigFourTags ==
    (default_tags = StrSplit(S_empty, S_comma) /\ cur # << >>) =>
        \A i \in 1..Len(emitted) :
            /\ emitted[i].id.tags = Tags(cur[1], << >>)
            /\ \A k \in 1..Len(emitted[i].id.tags) :
                   emitted[i].id.tags[k] # S_empty

\* C19: every submission carries at least one series and every series at
\* least one point, the Value being accepted among them: it is appended to the
\* batch before the flush condition is evaluated.
C19_NeverEmptyPayload ==
    did.sent =>
        /\ Len(did.batch) >= 1
        /\ Len(did.series) >= 1
        /\ \A j \in 1..Len(did.series) : Len(did.series[j].points) >= 1
        /\ did.uid \in SeriesUids(did.series)

\* A submission made on the first accept call after an empty batch.
C19_Witness ==
    /\ did.sent
    /\ Len(did.batch) = 1
    /\ Len(did.series) = 1
    /\ Len(did.series[1].points) = 1

====
